---- MODULE Spec2Model ----
(***************************************************************************)
(* The Move VM driver of ityfuzz (src/move/movevm.rs): the four            *)
(* process-global feedback maps, the tracer MoveVMTracer::on_step that     *)
(* fills them, and MoveVM::deploy / MoveVM::execute.                       *)
(*                                                                         *)
(* TLC's integers are 32 bits wide, so the 128-bit word of the source is   *)
(* modelled by a word of ByteBits * WordBytes bits and a 256-bit integer   *)
(* by a pair (hi, lo) of such words; every operation on them is the        *)
(* source's operation at that width.                                       *)
(***************************************************************************)
EXTENDS Integers, Sequences, FiniteSets, TLC

\* ------------------------------------------------------------ bounds
\* log2 of MAP_SIZE (a power of two; crate::generic_vm::vm_executor).
MapBits == 1
\* bits of a byte (8 in the source) and bytes of a u128 (16 in the source).
ByteBits == 2
WordBytes == 2
\* highest program counter / branch offset of the modelled code units.
MaxPc == 3
\* highest struct-definition index carried by a storage instruction.
MaxSdIdx == 1
\* tracer observations of one specification's process.
MaxObs == 2
\* branch observations of the hot-loop specification.
MaxHits == 260
\* instructions one process steps through, deepest operand stack, and most
\* suspended callers of the modelled programs.
MaxSteps == 3
MaxStack == 3
MaxDepth == 1

\* ------------------------------------------------------------ constants
MAP_SIZE == 2 ^ MapBits
BYTE_RANGE == 2 ^ ByteBits
U128_MAX == (BYTE_RANGE ^ WordBytes) - 1
U8_RANGE == 256
COV_MOD == 255
\* AccountAddress::LENGTH is twice the size of a u128.
ADDR_LEN == 2 * WordBytes

Buckets == 0 .. (MAP_SIZE - 1)

\* ------------------------------------------------------------ values
\* move_vm_types::values::ValueImpl, the variants the tracer looks at.
IntTypes == {"U8", "U16", "U32", "U64", "U128"}

Val(t, x) == [ty |-> t, v |-> x]

\* u256 as (hi, lo) words.
U256(h, l) == Val("U256", [hi |-> h, lo |-> l])

\* U256::unchecked_as_u128: the low word.
unchecked_as_u128(x) == x.lo

U256Le(a, b) == (a.hi < b.hi) \/ (a.hi = b.hi /\ a.lo <= b.lo)

RECURSIVE from_le_bytes(_)
\* u128::from_le_bytes: the first byte is the least significant.
from_le_bytes(bs) ==
    IF bs = <<>> THEN 0
    ELSE Head(bs) + BYTE_RANGE * from_le_bytes(Tail(bs))

\* addr.as_slice()[addr.len() - 16..]
LowSlice(addr) == SubSeq(addr, Len(addr) - WordBytes + 1, Len(addr))

AddrOff(addr) == from_le_bytes(LowSlice(addr))

\* ------------------------------------------------------------ tracer
\* fast_peek_back!(interp, k): operand_stack.value[len - k]; the top of the
\* stack is the last element.  The index is out of range when len < k.
PeekOk(stack, k) == Len(stack) >= k
fast_peek_back(stack, k) == stack[Len(stack) - k + 1]

\* distance!(cond, l, v)
distance(cond, l, v) ==
    IF ~cond THEN (IF l > v THEN l - v ELSE v - l) ELSE 0

\* the match of the Eq arm: l is the top of the stack, r the value below it.
DistanceEq(l, r) ==
    IF l.ty = r.ty /\ l.ty \in IntTypes THEN distance(l.v = r.v, l.v, r.v)
    ELSE IF l.ty = "U256" /\ r.ty = "U256"
        THEN distance(l.v = r.v, unchecked_as_u128(l.v), unchecked_as_u128(r.v))
    ELSE IF l.ty = "Bool" /\ r.ty = "Bool" THEN (IF l.v = r.v THEN 0 ELSE 1)
    ELSE U128_MAX

\* the match of the Lt | Le arm.
DistanceLe(l, r) ==
    IF l.ty = r.ty /\ l.ty \in IntTypes THEN distance(l.v <= r.v, l.v, r.v)
    ELSE IF l.ty = "U256" /\ r.ty = "U256"
        THEN distance(U256Le(l.v, r.v), unchecked_as_u128(l.v), unchecked_as_u128(r.v))
    ELSE U128_MAX

\* the match of the Gt | Ge arm.
DistanceGe(l, r) ==
    IF l.ty = r.ty /\ l.ty \in IntTypes THEN distance(l.v >= r.v, l.v, r.v)
    ELSE IF l.ty = "U256" /\ r.ty = "U256"
        THEN distance(U256Le(r.v, l.v), unchecked_as_u128(l.v), unchecked_as_u128(r.v))
    ELSE U128_MAX

\* ---- the updates of the four maps
\* (mutant) the counter without its modulo 255.
CovIncr_NoMod(c) == (c + 1) % U8_RANGE

\* MOVE_COV_MAP[map_offset] = (MOVE_COV_MAP[map_offset] + 1) % 255, on a u8.
CovIncr(c) == ((c + 1) % U8_RANGE) % COV_MOD

\* (mutant) the comparison of the fold turned round.
CmpFold_Flipped(old, d) == IF old < d THEN d ELSE old

\* if MOVE_CMP_MAP[map_offset] > distance { MOVE_CMP_MAP[map_offset] = distance }
CmpFold(old, d) == IF old > d THEN d ELSE old

\* if !MOVE_READ_MAP[map_offset] { MOVE_READ_MAP[map_offset] = true }
ReadSet(b) == IF ~b THEN TRUE ELSE b

\* (mutant) the write flag counted up like a coverage cell.
WriteSet_Counts(w) == (w + 1) % U8_RANGE

\* if MOVE_WRITE_MAP[map_offset] == 0 { MOVE_WRITE_MAP[map_offset] = 1 }
WriteSet(w) == IF w = 0 THEN 1 ELSE w

\* u128::unchecked_add: the sum when it fits; an overflow is undefined
\* behaviour, which a build turns into the wrapped sum or into a panic of the
\* precondition check.
unchecked_add(a, b) ==
    IF a + b <= U128_MAX THEN {[ok |-> TRUE, v |-> a + b]}
    ELSE {[ok |-> TRUE, v |-> (a + b) % (U128_MAX + 1)], [ok |-> FALSE, v |-> 0]}

\* ---- outcomes of one observation: the maps afterwards, and the panic
\* message when the tracer aborted the process ("" when it did not).
Ok(m) == [panic |-> "", maps |-> m]
Panic(msg, m) == [panic |-> msg, maps |-> m]

\* (mutant) the bucket at pc counted before the top of the stack is checked.
on_BrTrue_CountsFirst(m, stack, pc, offset) ==
    IF ~PeekOk(stack, 1) THEN {Panic("index out of bounds", m)}
    ELSE LET top == fast_peek_back(stack, 1)
             counted == [m EXCEPT !.cov[pc % MAP_SIZE] = (@ + 1) % COV_MOD]
         IN IF top.ty = "Bool"
            THEN {Ok([m EXCEPT !.cov[(IF top.v THEN offset ELSE pc + 1) % MAP_SIZE] =
                            (@ + 1) % COV_MOD])}
            ELSE {Panic("brtrue with non-bool value", counted)}

\* Bytecode::BrTrue(offset)
on_BrTrue(m, stack, pc, offset) ==
    IF ~PeekOk(stack, 1) THEN {Panic("index out of bounds", m)}
    ELSE LET top == fast_peek_back(stack, 1) IN
        IF top.ty = "Bool"
        THEN LET next_pc == IF top.v THEN offset ELSE pc + 1
                 map_offset == next_pc % MAP_SIZE
             IN {Ok([m EXCEPT !.cov[map_offset] = CovIncr(@)])}
        ELSE {Panic("brtrue with non-bool value", m)}

\* (mutant) BrFalse taken as jumping on true.
on_BrFalse_Inverted(m, stack, pc, offset) ==
    IF ~PeekOk(stack, 1) THEN {Panic("index out of bounds", m)}
    ELSE LET top == fast_peek_back(stack, 1) IN
        IF top.ty = "Bool"
        THEN LET next_pc == IF top.v THEN offset ELSE pc + 1
                 map_offset == next_pc % MAP_SIZE
             IN {Ok([m EXCEPT !.cov[map_offset] = CovIncr(@)])}
        ELSE {Panic("brfalse with non-bool value", m)}

\* Bytecode::BrFalse(offset)
on_BrFalse(m, stack, pc, offset) ==
    IF ~PeekOk(stack, 1) THEN {Panic("index out of bounds", m)}
    ELSE LET top == fast_peek_back(stack, 1) IN
        IF top.ty = "Bool"
        THEN LET next_pc == IF ~top.v THEN offset ELSE pc + 1
                 map_offset == next_pc % MAP_SIZE
             IN {Ok([m EXCEPT !.cov[map_offset] = CovIncr(@)])}
        ELSE {Panic("brfalse with non-bool value", m)}

\* the distance an Eq, Lt | Le, Gt | Ge observation computes from the stack.
CmpOps == {"Eq", "Lt", "Le", "Gt", "Ge"}

CmpDistance(op, stack) ==
    LET l == fast_peek_back(stack, 1)
        r == fast_peek_back(stack, 2)
    IN  IF op = "Eq" THEN DistanceEq(l, r)
        ELSE IF op \in {"Lt", "Le"} THEN DistanceLe(l, r)
        ELSE DistanceGe(l, r)

\* (mutant) a comparison counted in the coverage map as well.
on_Cmp_CountsCov(m, stack, pc, op) ==
    IF ~PeekOk(stack, 2) THEN {Panic("index out of bounds", m)}
    ELSE LET d == CmpDistance(op, stack)
             map_offset == pc % MAP_SIZE
         IN {Ok([m EXCEPT !.cmp[map_offset] = CmpFold(@, d),
                          !.cov[map_offset] = CovIncr(@)])}

\* Bytecode::Eq, Bytecode::Lt | Bytecode::Le, Bytecode::Gt | Bytecode::Ge
on_Cmp(m, stack, pc, op) ==
    IF ~PeekOk(stack, 2) THEN {Panic("index out of bounds", m)}
    ELSE LET d == CmpDistance(op, stack)
             map_offset == pc % MAP_SIZE
         IN {Ok([m EXCEPT !.cmp[map_offset] = CmpFold(@, d)])}

\* the bucket of a storage access on address addr with index sd_idx.
StorageOffsets(addr, sd_idx) ==
    {IF s.ok THEN [ok |-> TRUE, v |-> s.v % MAP_SIZE] ELSE s :
        s \in unchecked_add(AddrOff(addr), sd_idx)}

ReadOps == {"MutBorrowGlobal", "ImmBorrowGlobal", "Exists", "MoveFrom",
            "MutBorrowGlobalGeneric", "ImmBorrowGlobalGeneric",
            "ExistsGeneric", "MoveFromGeneric"}

\* MutBorrowGlobal | ImmBorrowGlobal | Exists | MoveFrom and their Generic forms
on_Read(m, stack, sd_idx) ==
    IF ~PeekOk(stack, 1) THEN {Panic("index out of bounds", m)}
    ELSE LET top == fast_peek_back(stack, 1) IN
        IF top.ty = "Address"
        THEN {IF o.ok THEN Ok([m EXCEPT !.read[o.v] = ReadSet(@)])
                      ELSE Panic("unchecked_add overflow", m) :
                o \in StorageOffsets(top.v, sd_idx)}
        ELSE {Panic("borrow_global with non-address value", m)}

WriteOps == {"MoveTo", "MoveToGeneric"}

\* (mutant) a write to global storage raising MOVE_STATE_CHANGED.
on_MoveTo_SetsFlag(m, stack, sd_idx) ==
    IF ~PeekOk(stack, 2) THEN {Panic("index out of bounds", m)}
    ELSE LET addr_struct == fast_peek_back(stack, 2) IN
        IF addr_struct.ty = "SignerRef"
        THEN {IF o.ok THEN Ok([m EXCEPT !.write[o.v] = WriteSet(@), !.state_changed = TRUE])
                      ELSE Panic("unchecked_add overflow", m) :
                o \in StorageOffsets(addr_struct.v, sd_idx)}
        ELSE {Panic("unwrap on an Err value", m)}

\* Bytecode::MoveTo(sd_idx), Bytecode::MoveToGeneric(sd_idx): the address is
\* field 0 of the signer reference below the top of the stack.
on_MoveTo(m, stack, sd_idx) ==
    IF ~PeekOk(stack, 2) THEN {Panic("index out of bounds", m)}
    ELSE LET addr_struct == fast_peek_back(stack, 2) IN
        IF addr_struct.ty = "SignerRef"
        THEN {IF o.ok THEN Ok([m EXCEPT !.write[o.v] = WriteSet(@)])
                      ELSE Panic("unchecked_add overflow", m) :
                o \in StorageOffsets(addr_struct.v, sd_idx)}
        ELSE {Panic("unwrap on an Err value", m)}

BranchOps == {"BrTrue", "BrFalse"}
\* Neq, Call, CallGeneric and every other instruction: no tracer action.
QuietOps == {"Neq", "Call", "CallGeneric", "Ret", "LdConst", "Pop", "Abort"}

Ins(o, a) == [op |-> o, arg |-> a]

\* MoveVMTracer::on_step
on_step(m, stack, pc, ins) ==
    IF ins.op = "BrTrue" THEN on_BrTrue(m, stack, pc, ins.arg)
    ELSE IF ins.op = "BrFalse" THEN on_BrFalse(m, stack, pc, ins.arg)
    ELSE IF ins.op \in CmpOps THEN on_Cmp(m, stack, pc, ins.op)
    ELSE IF ins.op \in ReadOps THEN on_Read(m, stack, ins.arg)
    ELSE IF ins.op \in WriteOps THEN on_MoveTo(m, stack, ins.arg)
    ELSE {Ok(m)}

\* ------------------------------------------------------------ state
VARIABLES
    MOVE_COV_MAP,        \* [u8; MAP_SIZE]
    MOVE_CMP_MAP,        \* [u128; MAP_SIZE]
    MOVE_READ_MAP,       \* [bool; MAP_SIZE]
    MOVE_WRITE_MAP,      \* [u8; MAP_SIZE]
    MOVE_STATE_CHANGED,  \* bool
    panic,               \* the message the process aborted with, "" while it runs
    nobs,                \* instructions the tracer has observed so far
    cmp_seen,            \* history: least distance computed so far per bucket
    cov_hit,             \* history: the buckets a branch observation has counted in
    entry_state_changed, \* history: MOVE_STATE_CHANGED when the last execute was entered
    ncalls,              \* history: Call/CallGeneric transitions of this execution
    nresumed,            \* history: Returns of this execution that resumed a caller
    niter,               \* history: iterations of the driver loop in this execution
    functions,           \* MoveVM::functions: the (module, name) keys indexed
    loader,              \* the loader's module cache: the functions loaded
    phase,               \* where execute is: idle, running, dispatch
    initial_function,    \* execute: the function resolved from the input
    operand_stack,       \* interp.operand_stack.value
    current_frame,       \* execute: the frame being stepped
    call_stack,          \* execute: the suspended callers
    ret,                 \* what execute_code returned to the loop
    result,              \* the last ExecutionResult returned
    metadata,            \* _state's metadata: the StructAbilities table, if any
    input_state,         \* input.vm_state: the MoveVMState the input carries
    state,               \* execute: the MoveVMState the run works on
    dist_in, dist_out    \* the operands and result of one distance computation

mapVars == <<MOVE_COV_MAP, MOVE_CMP_MAP, MOVE_READ_MAP, MOVE_WRITE_MAP>>
vmVars == <<functions, loader>>
runVars == <<phase, initial_function, operand_stack, current_frame, call_stack,
             ret, result, metadata, input_state, state>>
distVars == <<dist_in, dist_out>>
obsHist == <<cmp_seen, cov_hit, entry_state_changed>>
loopHist == <<ncalls, nresumed, niter>>
histVars == <<obsHist, loopHist>>
vars == <<mapVars, MOVE_STATE_CHANGED, panic, nobs, histVars, vmVars, runVars,
          distVars>>

\* the five statics as one record, and their assignment.
Statics == [cov |-> MOVE_COV_MAP, cmp |-> MOVE_CMP_MAP,
            read |-> MOVE_READ_MAP, write |-> MOVE_WRITE_MAP,
            state_changed |-> MOVE_STATE_CHANGED]

SetStatics(m) ==
    /\ MOVE_COV_MAP' = m.cov
    /\ MOVE_CMP_MAP' = m.cmp
    /\ MOVE_READ_MAP' = m.read
    /\ MOVE_WRITE_MAP' = m.write
    /\ MOVE_STATE_CHANGED' = m.state_changed

NoFrame == [pc |-> 0, locals |-> <<>>, function |-> 0, ty_args |-> <<>>]
\* a MoveVMState: the resources it holds (by struct-definition index) and the
\* types of the values recorded in it.
EmptyState == [resources |-> {}, values |-> {}]
NoResult == [returned |-> FALSE, reverted |-> FALSE, vars |-> <<>>,
             new_state |-> EmptyState]
NoRet == [code |-> "none", fh |-> 0]
NoMetadata == [has |-> FALSE, abilities |-> {}]
NoDist == [op |-> "none", l |-> Val("Bool", FALSE), r |-> Val("Bool", FALSE)]

\* the initialisers of the five statics.
InitStatics ==
    /\ MOVE_COV_MAP = [i \in Buckets |-> 0]
    /\ MOVE_CMP_MAP = [i \in Buckets |-> 0]
    /\ MOVE_READ_MAP = [i \in Buckets |-> FALSE]
    /\ MOVE_WRITE_MAP = [i \in Buckets |-> 0]
    /\ MOVE_STATE_CHANGED = FALSE

\* no execution under way, none made yet.
InitRun ==
    /\ panic = ""
    /\ nobs = 0
    /\ cmp_seen = [i \in Buckets |-> U128_MAX]
    /\ cov_hit = {}
    /\ entry_state_changed = FALSE
    /\ ncalls = 0
    /\ nresumed = 0
    /\ niter = 0
    /\ phase = "idle"
    /\ initial_function = 0
    /\ operand_stack = <<>>
    /\ current_frame = NoFrame
    /\ call_stack = <<>>
    /\ ret = NoRet
    /\ result = NoResult
    /\ metadata = NoMetadata
    /\ input_state = EmptyState
    /\ state = EmptyState

\* MoveVM::new, and no execution under way.
InitVM ==
    /\ functions = {}
    /\ loader = {}
    /\ InitRun

Init ==
    /\ InitStatics
    /\ InitVM
    /\ dist_in = NoDist
    /\ dist_out = 0

\* the history of the distances: the least one computed at each bucket.
SeenAfter(stack, pc, ins) ==
    IF ins.op \in CmpOps /\ PeekOk(stack, 2)
    THEN LET d == CmpDistance(ins.op, stack) IN
         [cmp_seen EXCEPT ![pc % MAP_SIZE] = IF d < @ THEN d ELSE @]
    ELSE cmp_seen

\* the history of the branches: the buckets whose counter has been changed.
HitAfter(before, after) ==
    cov_hit \cup {i \in Buckets : after.cov[i] # before.cov[i]}

\* ------------------------------------------------------------ inputs
\* sample addresses: all bytes zero, low word 1, low word U128_MAX.
ZeroBytes(n) == [i \in 1 .. n |-> 0]
AddrZero == ZeroBytes(ADDR_LEN)
AddrOne == ZeroBytes(WordBytes) \o <<1>> \o ZeroBytes(WordBytes - 1)
AddrTop == ZeroBytes(WordBytes) \o [i \in 1 .. WordBytes |-> BYTE_RANGE - 1]

\* the operand stacks an observation is made on, by what the instruction's
\* arm reads: nothing, the top, or the two top values.
CmpValues ==
    {Val("U8", 1), Val("U64", 0), Val("U64", 5), Val("U64", 10),
     U256(0, 0), U256(1, 0), Val("Bool", TRUE)}

TopValues ==
    {Val("Bool", TRUE), Val("Bool", FALSE), Val("U64", 5),
     Val("Address", AddrOne), Val("Address", AddrTop)}

BelowValues ==
    {Val("SignerRef", AddrZero), Val("SignerRef", AddrTop), Val("Address", AddrOne)}

TracerStacks(ins) ==
    IF ins.op \in CmpOps
        THEN {<<>>} \cup {<<a, b>> : a \in CmpValues, b \in CmpValues}
    ELSE IF ins.op \in WriteOps
        THEN {<<Val("U64", 5)>>} \cup {<<a, Val("U64", 5)>> : a \in BelowValues}
    ELSE {<<>>} \cup {<<a>> : a \in TopValues}

\* the program counters an observation is made at; only the branch and the
\* comparison arms read pc.
TracerPcs(ins) ==
    IF ins.op \in BranchOps \cup CmpOps THEN 0 .. MaxPc ELSE {0}

Bytecode ==
    {Ins(o, a) : o \in BranchOps, a \in 0 .. MaxPc}
    \cup {Ins(o, 0) : o \in CmpOps \cup QuietOps}
    \cup {Ins(o, a) : o \in ReadOps \cup WriteOps, a \in 0 .. MaxSdIdx}

\* ------------------------------------------------------------ tracer alone
\* One call of on_step by the VM, on any instruction, program counter and
\* operand stack.
Observe ==
    /\ panic = ""
    /\ nobs < MaxObs
    /\ \E ins \in Bytecode :
        \E pc \in TracerPcs(ins), stack \in TracerStacks(ins) :
        \E o \in on_step(Statics, stack, pc, ins) :
            /\ SetStatics(o.maps)
            /\ panic' = o.panic
            /\ cmp_seen' = SeenAfter(stack, pc, ins)
            /\ cov_hit' = HitAfter(Statics, o.maps)
    /\ nobs' = nobs + 1
    /\ UNCHANGED <<entry_state_changed, loopHist, vmVars, runVars, distVars>>

SpecTracer == Init /\ [][Observe]_vars

\* ------------------------------------------------------------ a hot branch
\* The branch at pc 0 of a loop, observed again and again: BrTrue(0) or
\* BrFalse(0) on either boolean, so that the hits land in buckets 0 and 1.
HotBranches == {Ins(o, 0) : o \in BranchOps}
HotStacks == {<<Val("Bool", TRUE)>>, <<Val("Bool", FALSE)>>}

ObserveHotBranch ==
    /\ panic = ""
    /\ nobs < MaxHits
    /\ \E ins \in HotBranches, stack \in HotStacks :
        \E o \in on_step(Statics, stack, 0, ins) :
            /\ SetStatics(o.maps)
            /\ panic' = o.panic
            /\ cmp_seen' = SeenAfter(stack, 0, ins)
            /\ cov_hit' = HitAfter(Statics, o.maps)
    /\ nobs' = nobs + 1
    /\ UNCHANGED <<entry_state_changed, loopHist, vmVars, runVars, distVars>>

SpecCov == Init /\ [][ObserveHotBranch]_vars

\* ------------------------------------------------------------ distance alone
\* The distance of one comparison, on operands of every recognised width.
DistValues ==
    {Val(t, x) : t \in IntTypes, x \in {0, 1, 3}}
    \cup {Val("U128", U128_MAX)}
    \cup {U256(h, l) : h \in {0, 1}, l \in {0, 2, U128_MAX}}

InitDist ==
    /\ InitStatics
    /\ InitVM
    /\ dist_in \in [op : CmpOps, l : DistValues, r : DistValues]
    /\ dist_out = -1

\* the comparison arm's match on a stack holding r below l.
ComputeDistance ==
    /\ dist_out = -1
    /\ dist_out' = CmpDistance(dist_in.op, <<dist_in.r, dist_in.l>>)
    /\ UNCHANGED <<mapVars, MOVE_STATE_CHANGED, panic, nobs, histVars, vmVars,
                   runVars, dist_in>>

SpecDist == InitDist /\ [][ComputeDistance]_vars

\* ------------------------------------------------------------ the driver
\* The functions of the modules that get deployed (loader::Function): module,
\* name, local_count(), parameter count, return_types(), is_native().
Fn(m, n, lc, pc, rt, nat) ==
    [module |-> m, name |-> n, local_count |-> lc, params |-> pc,
     return_types |-> rt, native |-> nat]

FunctionTable ==
    <<Fn("M1", "test1", 1, 1, <<"U64", "Bool">>, FALSE),
      Fn("M1", "helper", 2, 1, <<"TestStruct">>, FALSE),
      Fn("M2", "nat", 0, 0, <<>>, TRUE)>>

FunctionIds == DOMAIN FunctionTable
ModuleIds == {FunctionTable[f].module : f \in FunctionIds}
FunctionNames == {FunctionTable[f].name : f \in FunctionIds}
FunctionsOf(m) == {f \in FunctionIds : FunctionTable[f].module = m}

Min(a, b) == IF a < b THEN a ELSE b

\* (mutant) a new MoveVM that starts from zeroed feedback maps.
NewVM_ZeroesMaps ==
    /\ panic = ""
    /\ phase = "idle"
    /\ functions # {}
    /\ functions' = {}
    /\ loader' = {}
    /\ MOVE_COV_MAP' = [i \in Buckets |-> 0]
    /\ MOVE_CMP_MAP' = [i \in Buckets |-> 0]
    /\ MOVE_READ_MAP' = [i \in Buckets |-> FALSE]
    /\ MOVE_WRITE_MAP' = [i \in Buckets |-> 0]
    /\ UNCHANGED <<MOVE_STATE_CHANGED, panic, nobs, histVars, runVars, distVars>>

\* MoveVM::new: an empty functions index and a loader with an empty cache.
NewVM ==
    /\ panic = ""
    /\ phase = "idle"
    /\ functions # {}
    /\ functions' = {}
    /\ loader' = {}
    /\ UNCHANGED <<mapVars, MOVE_STATE_CHANGED, panic, nobs, histVars, runVars,
                   distVars>>

\* (mutant) the index rebuilt from the deployed module alone.
deploy_Replaces(module) ==
    /\ panic = ""
    /\ phase = "idle"
    /\ FunctionsOf(module) \cap loader = {}
    /\ loader' = loader \cup FunctionsOf(module)
    /\ functions' = {<<module, FunctionTable[f].name, f>> : f \in FunctionsOf(module)}
    /\ UNCHANGED <<mapVars, MOVE_STATE_CHANGED, panic, nobs, histVars, runVars,
                   distVars>>

\* MoveVM::deploy of a module the cache does not hold yet: the functions the
\* insertion appended to the cache are indexed by (module id, name).
deploy(module) ==
    /\ panic = ""
    /\ phase = "idle"
    /\ FunctionsOf(module) \cap loader = {}
    /\ loader' = loader \cup FunctionsOf(module)
    /\ functions' = functions \cup
            {<<module, FunctionTable[f].name, f>> : f \in FunctionsOf(module)}
    /\ UNCHANGED <<mapVars, MOVE_STATE_CHANGED, panic, nobs, histVars, runVars,
                   distVars>>

\* self.functions.get(&module_id).unwrap().get(function_name).unwrap()
Resolved(module, name) == {k[3] : k \in {x \in functions : x[1] = module /\ x[2] = name}}

Invalid == Val("Invalid", 0)

\* the values the modelled programs push (LdConst i pushes the i-th) and the
\* arguments an input carries.
ConstantPool ==
    <<Val("U64", 0), Val("U64", 5), Val("Bool", TRUE),
      Val("Address", AddrOne), Val("SignerRef", AddrOne)>>
ArgSeqs == {<<>>, <<Val("U64", 5)>>, <<Val("U64", 5), Val("Bool", TRUE)>>}

\* (mutant) the read map cleared along with the flag.
ResetStatics_ClearsRead(st) ==
    [st EXCEPT !.state_changed = FALSE, !.read = [i \in Buckets |-> FALSE]]

\* (mutant) the flag left as it is.
ResetStatics_Keeps(st) == st

\* unsafe { MOVE_STATE_CHANGED = false; }
ResetStatics(st) == [st EXCEPT !.state_changed = FALSE]

\* the states an input may carry: a fresh one, or the one the last result
\* handed back.
InputStates == {EmptyState, result.new_state}

\* (mutant) the run works on the input's own state.
StateOfInput_Shared(vm_state, working) == working

\* let mut state = input.get_state().clone(): what input.vm_state holds once
\* the run's state has become `working`.
StateOfInput(vm_state, working) == vm_state

\* (mutant) the flag reset before the initial function is resolved.
execute_start_ResetsFirst(module, name, args) ==
    /\ panic = ""
    /\ phase = "idle"
    /\ nobs < MaxSteps
    /\ IF Resolved(module, name) = {}
       THEN /\ panic' = "unwrap on a None value"
            /\ SetStatics(ResetStatics(Statics))
            /\ UNCHANGED runVars
       ELSE \E f \in Resolved(module, name) :
            /\ ~FunctionTable[f].native
            /\ SetStatics(ResetStatics(Statics))
            /\ IF Len(args) > FunctionTable[f].local_count
               THEN /\ panic' = "unwrap on an Err value"
                    /\ UNCHANGED runVars
               ELSE /\ panic' = panic
                    /\ phase' = "running"
                    /\ initial_function' = f
                    /\ operand_stack' = <<>>
                    /\ current_frame' =
                         [pc |-> 0,
                          locals |-> [i \in 1 .. FunctionTable[f].local_count |->
                                        IF i <= Len(args) THEN args[i] ELSE Invalid],
                          function |-> f,
                          ty_args |-> <<>>]
                    /\ call_stack' = <<>>
                    /\ ret' = NoRet
                    /\ result' = NoResult
                    /\ metadata' = metadata
                    /\ \E vm_state \in InputStates :
                        /\ input_state' = vm_state
                        /\ state' = vm_state
    /\ entry_state_changed' = MOVE_STATE_CHANGED
    /\ ncalls' = 0
    /\ nresumed' = 0
    /\ niter' = 0
    /\ UNCHANGED <<nobs, cmp_seen, cov_hit, vmVars, distVars>>

\* execute, up to the loop: resolve the initial function, a fresh interpreter,
\* reset MOVE_STATE_CHANGED, build the initial frame from the arguments.
execute_start(module, name, args) ==
    /\ panic = ""
    /\ phase = "idle"
    /\ nobs < MaxSteps
    /\ IF Resolved(module, name) = {}
       THEN /\ panic' = "unwrap on a None value"
            /\ UNCHANGED <<mapVars, MOVE_STATE_CHANGED, runVars>>
       ELSE \E f \in Resolved(module, name) :
            /\ ~FunctionTable[f].native
            /\ SetStatics(ResetStatics(Statics))
            /\ IF Len(args) > FunctionTable[f].local_count
               THEN /\ panic' = "unwrap on an Err value"
                    /\ UNCHANGED runVars
               ELSE /\ panic' = panic
                    /\ phase' = "running"
                    /\ initial_function' = f
                    /\ operand_stack' = <<>>
                    /\ current_frame' =
                         [pc |-> 0,
                          locals |-> [i \in 1 .. FunctionTable[f].local_count |->
                                        IF i <= Len(args) THEN args[i] ELSE Invalid],
                          function |-> f,
                          ty_args |-> <<>>]
                    /\ call_stack' = <<>>
                    /\ ret' = NoRet
                    /\ result' = NoResult
                    /\ metadata' = metadata
                    /\ \E vm_state \in InputStates :
                        /\ input_state' = vm_state
                        /\ state' = vm_state
    /\ entry_state_changed' = MOVE_STATE_CHANGED
    /\ ncalls' = 0
    /\ nresumed' = 0
    /\ niter' = 0
    /\ UNCHANGED <<nobs, cmp_seen, cov_hit, vmVars, distVars>>

\* ---- Frame::execute_code, one instruction: what the VM does to the operand
\* stack and the frame's pc after the tracer has seen the instruction, and the
\* exit code or error it hands back to the loop.
Cont(st, p) == [stack |-> st, pc |-> p, ret |-> NoRet]
Exit(st, p, c, f) == [stack |-> st, pc |-> p, ret |-> [code |-> c, fh |-> f]]

Drop(st, n) == SubSeq(st, 1, Len(st) - n)

IsInt(x) == x.ty \in IntTypes \cup {"U256"}

IntLe(a, b) == IF a.ty = "U256" THEN U256Le(a.v, b.v) ELSE a.v <= b.v

\* the boolean a comparison instruction pushes: lhs is below rhs on the stack.
Compare(op, lhs, rhs) ==
    IF op = "Eq" THEN lhs.v = rhs.v
    ELSE IF op = "Neq" THEN lhs.v # rhs.v
    ELSE IF op = "Lt" THEN IntLe(lhs, rhs) /\ lhs.v # rhs.v
    ELSE IF op = "Le" THEN IntLe(lhs, rhs)
    ELSE IF op = "Gt" THEN IntLe(rhs, lhs) /\ lhs.v # rhs.v
    ELSE IntLe(rhs, lhs)

Exec(st, pc, ins) ==
    LET err == Exit(st, pc, "Err", 0)
        top == st[Len(st)]
        below == st[Len(st) - 1]
    IN
    IF ins.op = "Ret" THEN {Exit(st, pc, "Return", 0)}
    ELSE IF ins.op = "Abort" THEN {err}
    ELSE IF ins.op = "Call" THEN {Exit(st, pc, "Call", ins.arg)}
    ELSE IF ins.op = "CallGeneric" THEN {Exit(st, pc, "CallGeneric", ins.arg)}
    ELSE IF ins.op = "BrTrue" THEN {Cont(Drop(st, 1), IF top.v THEN ins.arg ELSE pc + 1)}
    ELSE IF ins.op = "BrFalse" THEN {Cont(Drop(st, 1), IF ~top.v THEN ins.arg ELSE pc + 1)}
    ELSE IF ins.op = "LdConst" THEN {Cont(Append(st, ConstantPool[ins.arg]), pc + 1)}
    ELSE IF ins.op = "Pop" THEN
        IF Len(st) = 0 THEN {err} ELSE {Cont(Drop(st, 1), pc + 1)}
    ELSE IF ins.op \in {"Eq", "Neq"} THEN
        IF Len(st) < 2 THEN {err}
        ELSE IF top.ty # below.ty THEN {err}
        ELSE {Cont(Append(Drop(st, 2), Val("Bool", Compare(ins.op, below, top))), pc + 1)}
    ELSE IF ins.op \in CmpOps THEN
        IF top.ty # below.ty \/ ~IsInt(top) THEN {err}
        ELSE {Cont(Append(Drop(st, 2), Val("Bool", Compare(ins.op, below, top))), pc + 1)}
    ELSE IF ins.op \in {"Exists", "ExistsGeneric"} THEN
        {Cont(Append(Drop(st, 1), Val("Bool", b)), pc + 1) : b \in BOOLEAN}
    ELSE IF ins.op \in ReadOps THEN
        {err, Cont(Append(Drop(st, 1), Val("Struct", ins.arg)), pc + 1)}
    ELSE \* MoveTo, MoveToGeneric
        {err, Cont(Drop(st, 2), pc + 1)}

\* what a completed instruction does to the MoveVMState passed to
\* execute_code: MoveTo publishes the resource, MoveFrom takes it out.
StateAfter(st, ins, e) ==
    IF e.ret.code # "none" THEN st
    ELSE IF ins.op \in WriteOps THEN [st EXCEPT !.resources = @ \cup {ins.arg}]
    ELSE IF ins.op \in {"MoveFrom", "MoveFromGeneric"}
        THEN [st EXCEPT !.resources = @ \ {ins.arg}]
    ELSE st

\* the instructions the modelled programs are made of.
DriverCode ==
    {i \in Bytecode : i.op \notin {"LdConst", "Call", "CallGeneric"}}
    \cup {Ins("LdConst", i) : i \in DOMAIN ConstantPool}
    \cup {Ins(o, f) : o \in {"Call", "CallGeneric"}, f \in loader}

\* what the code unit and the bounds allow at this point: the
\* next pc is in the code, the stack and the call depth stay in the bounds.
Admissible(ins, e) ==
    /\ ins.op \in {"Ret", "Abort"} \/ nobs < MaxSteps
    /\ ins.op = "LdConst" => ins.arg \in DOMAIN ConstantPool
    /\ ins.op \in {"Call", "CallGeneric"} =>
            /\ ins.arg \in loader
            /\ Len(call_stack) < MaxDepth
            /\ current_frame.pc < MaxPc
    /\ e.pc <= MaxPc
    /\ Len(e.stack) <= MaxStack

\* one instruction of the current frame: on_step, then the instruction.
execute_code ==
    /\ panic = ""
    /\ phase = "running"
    /\ \E ins \in DriverCode :
        \E o \in on_step(Statics, operand_stack, current_frame.pc, ins) :
            /\ SetStatics(o.maps)
            /\ panic' = o.panic
            /\ cmp_seen' = SeenAfter(operand_stack, current_frame.pc, ins)
            /\ cov_hit' = HitAfter(Statics, o.maps)
            /\ IF o.panic # ""
               THEN /\ ins.op \in {"Ret", "Abort"} \/ nobs < MaxSteps
                    /\ UNCHANGED runVars
               ELSE \E e \in Exec(operand_stack, current_frame.pc, ins) :
                    /\ Admissible(ins, e)
                    /\ operand_stack' = e.stack
                    /\ current_frame' = [current_frame EXCEPT !.pc = e.pc]
                    /\ ret' = e.ret
                    /\ phase' = IF e.ret.code = "none" THEN "running" ELSE "dispatch"
                    /\ state' = StateAfter(state, ins, e)
                    /\ input_state' = StateOfInput(input_state, state')
                    /\ UNCHANGED <<initial_function, call_stack, result, metadata>>
    /\ nobs' = nobs + 1
    /\ UNCHANGED <<entry_state_changed, loopHist, vmVars, distVars>>

\* (mutant) one entry per declared return type, whatever the stack holds.
Zip_PerType(st, types) ==
    [j \in 1 .. Len(types) |-> <<types[j], IF j <= Len(st) THEN st[j] ELSE Invalid>>]

\* ---- after the loop: the operand stack zipped with the initial function's
\* return types.
Zip(st, types) == [j \in 1 .. Min(Len(st), Len(types)) |-> <<types[j], st[j]>>]

\* resolver.loader.abilities(t): the abilities of the types the modelled
\* functions declare.
Abilities(t) ==
    IF t = "TestStruct" THEN {"key"} ELSE {"copy", "drop", "store"}

\* (mutant) the table replaced by one holding the new entry only.
set_ability_Fresh(md, t, a) == [has |-> TRUE, abilities |-> {<<t, a>>}]

\* the body of the extraction loop on _state: insert a StructAbilities if the
\* metadata has none, then set_ability(t, abilities).
set_ability(md, t, a) ==
    [has |-> TRUE,
     abilities |-> {e \in (IF md.has THEN md.abilities ELSE {}) : e[1] # t}
                   \cup {<<t, a>>}]

\* the extraction loop over the zipped pairs, from the j-th on.
RECURSIVE SetAbilities(_, _, _)
SetAbilities(md, zs, j) ==
    IF j > Len(zs) THEN md
    ELSE SetAbilities(set_ability(md, zs[j][1], Abilities(zs[j][1])), zs, j + 1)

\* state.add_new_value(v, t, has_drop) for each zipped pair.
add_new_values(st, zs) ==
    [st EXCEPT !.values = @ \cup {zs[j][1] : j \in DOMAIN zs}]

\* (mutant) the stack zipped with the return types of the frame the loop
\* ended in.
Extract_CurrentFrameTypes(reverted) ==
    /\ state' = add_new_values(state,
            Zip(operand_stack, FunctionTable[current_frame.function].return_types))
    /\ input_state' = StateOfInput(input_state, state')
    /\ result' = [returned |-> TRUE, reverted |-> reverted,
                  vars |-> Zip(operand_stack, FunctionTable[current_frame.function].return_types),
                  new_state |-> state']
    /\ metadata' = SetAbilities(metadata,
            Zip(operand_stack, FunctionTable[current_frame.function].return_types), 1)
    /\ phase' = "idle"
    /\ current_frame' = NoFrame
    /\ call_stack' = <<>>
    /\ ret' = NoRet
    /\ UNCHANGED <<initial_function, operand_stack>>

\* the result extraction after the loop.
Extract(reverted) ==
    /\ state' = add_new_values(state,
            Zip(operand_stack, FunctionTable[initial_function].return_types))
    /\ input_state' = StateOfInput(input_state, state')
    /\ result' = [returned |-> TRUE, reverted |-> reverted,
                  vars |-> Zip(operand_stack, FunctionTable[initial_function].return_types),
                  new_state |-> state']
    /\ metadata' = SetAbilities(metadata,
            Zip(operand_stack, FunctionTable[initial_function].return_types), 1)
    /\ phase' = "idle"
    /\ current_frame' = NoFrame
    /\ call_stack' = <<>>
    /\ ret' = NoRet
    /\ UNCHANGED <<initial_function, operand_stack>>

\* (mutant) the error swallowed: the loop left with reverted = false.
loop_err_NotReverted ==
    /\ panic = ""
    /\ phase = "dispatch"
    /\ ret.code = "Err"
    /\ Extract(FALSE)
    /\ niter' = niter + 1
    /\ UNCHANGED <<mapVars, MOVE_STATE_CHANGED, panic, nobs, obsHist, ncalls,
                   nresumed, vmVars, distVars>>

\* (mutant) a step error answered by stepping the frame again.
loop_err_Retries ==
    /\ panic = ""
    /\ phase = "dispatch"
    /\ ret.code = "Err"
    /\ phase' = "running"
    /\ ret' = NoRet
    /\ niter' = niter + 1
    /\ UNCHANGED <<initial_function, operand_stack, current_frame, call_stack,
                   result, metadata, input_state, state>>
    /\ UNCHANGED <<mapVars, MOVE_STATE_CHANGED, panic, nobs, obsHist, ncalls,
                   nresumed, vmVars, distVars>>

\* if ret.is_err() { reverted = true; break; }
loop_err ==
    /\ panic = ""
    /\ phase = "dispatch"
    /\ ret.code = "Err"
    /\ Extract(TRUE)
    /\ niter' = niter + 1
    /\ UNCHANGED <<mapVars, MOVE_STATE_CHANGED, panic, nobs, obsHist, ncalls,
                   nresumed, vmVars, distVars>>

\* (mutant) the caller resumed at its call instruction.
loop_return_NoAdvance ==
    /\ panic = ""
    /\ phase = "dispatch"
    /\ ret.code = "Return"
    /\ IF call_stack # <<>>
       THEN /\ current_frame' = call_stack[Len(call_stack)]
            /\ call_stack' = Drop(call_stack, 1)
            /\ phase' = "running"
            /\ ret' = NoRet
            /\ nresumed' = nresumed + 1
            /\ UNCHANGED <<initial_function, operand_stack, result, metadata,
                           input_state, state>>
       ELSE Extract(FALSE) /\ nresumed' = nresumed
    /\ niter' = niter + 1
    /\ UNCHANGED <<mapVars, MOVE_STATE_CHANGED, panic, nobs, obsHist, ncalls,
                   vmVars, distVars>>

\* ExitCode::Return
loop_return ==
    /\ panic = ""
    /\ phase = "dispatch"
    /\ ret.code = "Return"
    /\ IF call_stack # <<>>
       THEN LET frame == call_stack[Len(call_stack)] IN
            /\ current_frame' = [frame EXCEPT !.pc = @ + 1]
            /\ call_stack' = Drop(call_stack, 1)
            /\ phase' = "running"
            /\ ret' = NoRet
            /\ nresumed' = nresumed + 1
            /\ UNCHANGED <<initial_function, operand_stack, result, metadata,
                           input_state, state>>
       ELSE Extract(FALSE) /\ nresumed' = nresumed
    /\ niter' = niter + 1
    /\ UNCHANGED <<mapVars, MOVE_STATE_CHANGED, panic, nobs, obsHist, ncalls,
                   vmVars, distVars>>

RECURSIVE PopArgs(_, _, _, _)
RECURSIVE PopArgs_InOrder(_, _, _, _)

\* (mutant) the i-th value popped stored into local i.
PopArgs_InOrder(locals, stack, i, argc) ==
    IF i = argc THEN [ok |-> TRUE, locals |-> locals, stack |-> stack]
    ELSE IF stack = <<>> THEN [ok |-> FALSE, locals |-> locals, stack |-> stack]
    ELSE PopArgs_InOrder([locals EXCEPT ![i + 1] = stack[Len(stack)]],
                         Drop(stack, 1), i + 1, argc)

\* for i in 0..argc { locals.store_loc(argc - i - 1, operand_stack.pop().unwrap()) }
\* from the i-th round on; local k of the code is locals[k + 1] here.
PopArgs(locals, stack, i, argc) ==
    IF i = argc THEN [ok |-> TRUE, locals |-> locals, stack |-> stack]
    ELSE IF stack = <<>> THEN [ok |-> FALSE, locals |-> locals, stack |-> stack]
    ELSE PopArgs([locals EXCEPT ![(argc - i - 1) + 1] = stack[Len(stack)]],
                 Drop(stack, 1), i + 1, argc)

\* (mutant) the callee installed without the caller being pushed.
Transfer_NoPush(ty_args) ==
    LET func == FunctionTable[ret.fh]
        argc == func.local_count
        t == PopArgs([k \in 1 .. argc |-> Invalid], operand_stack, 0, argc)
    IN  IF ~t.ok
        THEN /\ panic' = "unwrap on an Err value"
             /\ ncalls' = ncalls
             /\ UNCHANGED runVars
        ELSE IF func.native
        THEN /\ panic' = "not yet implemented: native function call"
             /\ ncalls' = ncalls
             /\ operand_stack' = t.stack
             /\ UNCHANGED <<phase, initial_function, current_frame, call_stack,
                            ret, result, metadata, input_state, state>>
        ELSE /\ panic' = panic
             /\ ncalls' = ncalls + 1
             /\ operand_stack' = t.stack
             /\ call_stack' = call_stack
             /\ current_frame' =
                    [pc |-> 0,
                     locals |-> t.locals,
                     function |-> ret.fh,
                     ty_args |-> ty_args]
             /\ phase' = "running"
             /\ ret' = NoRet
             /\ UNCHANGED <<initial_function, result, metadata, input_state, state>>

\* (mutant) a native callee entered like any other.
Transfer_RunsNative(ty_args) ==
    LET func == FunctionTable[ret.fh]
        argc == func.local_count
        t == PopArgs([k \in 1 .. argc |-> Invalid], operand_stack, 0, argc)
    IN  IF ~t.ok
        THEN /\ panic' = "unwrap on an Err value"
             /\ ncalls' = ncalls
             /\ UNCHANGED runVars
        ELSE IF FALSE
        THEN /\ panic' = "not yet implemented: native function call"
             /\ ncalls' = ncalls
             /\ operand_stack' = t.stack
             /\ UNCHANGED <<phase, initial_function, current_frame, call_stack,
                            ret, result, metadata, input_state, state>>
        ELSE /\ panic' = panic
             /\ ncalls' = ncalls + 1
             /\ operand_stack' = t.stack
             /\ call_stack' = Append(call_stack, current_frame)
             /\ current_frame' =
                    [pc |-> 0,
                     locals |-> t.locals,
                     function |-> ret.fh,
                     ty_args |-> ty_args]
             /\ phase' = "running"
             /\ ret' = NoRet
             /\ UNCHANGED <<initial_function, result, metadata, input_state, state>>

\* the argument transfer of ExitCode::Call and ExitCode::CallGeneric, the
\* native check, and the push of the caller.
Transfer(ty_args) ==
    LET func == FunctionTable[ret.fh]
        argc == func.local_count
        t == PopArgs([k \in 1 .. argc |-> Invalid], operand_stack, 0, argc)
    IN  IF ~t.ok
        THEN /\ panic' = "unwrap on an Err value"
             /\ ncalls' = ncalls
             /\ UNCHANGED runVars
        ELSE IF func.native
        THEN /\ panic' = "not yet implemented: native function call"
             /\ ncalls' = ncalls
             /\ operand_stack' = t.stack
             /\ UNCHANGED <<phase, initial_function, current_frame, call_stack,
                            ret, result, metadata, input_state, state>>
        ELSE /\ panic' = panic
             /\ ncalls' = ncalls + 1
             /\ operand_stack' = t.stack
             /\ call_stack' = Append(call_stack, current_frame)
             /\ current_frame' =
                    [pc |-> 0,
                     locals |-> t.locals,
                     function |-> ret.fh,
                     ty_args |-> ty_args]
             /\ phase' = "running"
             /\ ret' = NoRet
             /\ UNCHANGED <<initial_function, result, metadata, input_state, state>>

\* ExitCode::Call(fh_idx)
loop_call ==
    /\ panic = ""
    /\ phase = "dispatch"
    /\ ret.code = "Call"
    /\ Transfer(<<>>)
    /\ niter' = niter + 1
    /\ UNCHANGED <<mapVars, MOVE_STATE_CHANGED, nobs, obsHist, nresumed, vmVars,
                   distVars>>

\* resolver.instantiate_generic_function(fh_idx, &current_frame.ty_args)
instantiate_generic_function(fh, ty_args) == <<"T">>

\* ExitCode::CallGeneric(fh_idx)
loop_call_generic ==
    /\ panic = ""
    /\ phase = "dispatch"
    /\ ret.code = "CallGeneric"
    /\ Transfer(instantiate_generic_function(ret.fh, current_frame.ty_args))
    /\ niter' = niter + 1
    /\ UNCHANGED <<mapVars, MOVE_STATE_CHANGED, nobs, obsHist, nresumed, vmVars,
                   distVars>>

Next ==
    \/ NewVM
    \/ \E module \in ModuleIds : deploy(module)
    \/ \E module \in ModuleIds, name \in FunctionNames, args \in ArgSeqs :
            execute_start(module, name, args)
    \/ execute_code
    \/ loop_err
    \/ loop_return
    \/ loop_call
    \/ loop_call_generic

Spec == Init /\ [][Next]_vars

\* ------------------------------------------------------------ the loop
\* The executions of a MoveVM on which both modules have been deployed. The
\* driver loop keeps running: a step function that can return does, and the
\* loop handles what it returned.
InitLoop ==
    /\ InitStatics
    /\ InitRun
    /\ loader = FunctionIds
    /\ functions = {<<FunctionTable[f].module, FunctionTable[f].name, f>> :
                        f \in FunctionIds}
    /\ dist_in = NoDist
    /\ dist_out = 0

NextLoop ==
    \/ \E module \in ModuleIds, name \in FunctionNames, args \in ArgSeqs :
            execute_start(module, name, args)
    \/ execute_code
    \/ loop_err
    \/ loop_return
    \/ loop_call
    \/ loop_call_generic

SpecLive ==
    /\ InitLoop
    /\ [][NextLoop]_vars
    /\ WF_vars(execute_code)
    /\ WF_vars(loop_err)
    /\ WF_vars(loop_return)
    /\ WF_vars(loop_call)
    /\ WF_vars(loop_call_generic)

\* ------------------------------------------------------------ the flag
\* MOVE_STATE_CHANGED is a pub static mut: between two executions the rest of
\* the crate may write it. The driver with such a writer beside it.
set_state_changed ==
    /\ panic = ""
    /\ phase = "idle"
    /\ ~MOVE_STATE_CHANGED
    /\ MOVE_STATE_CHANGED' = TRUE
    /\ UNCHANGED <<mapVars, panic, nobs, histVars, vmVars, runVars, distVars>>

SpecStateChanged == Init /\ [][Next \/ set_state_changed]_vars

\* ============================================================ claims

\* C1: across every step of the process (executions, tracer observations of
\* any opcode, deploys), no cell of the compare map increases.
C1_CmpNeverIncreases ==
    [][\A i \in Buckets : MOVE_CMP_MAP'[i] <= MOVE_CMP_MAP[i]]_vars

\* a comparison with a positive recognised distance has been observed.
C1_Witness ==
    \E i \in Buckets : cmp_seen[i] > 0 /\ cmp_seen[i] < U128_MAX

\* C2: before any tracer observation every cell of the compare map holds the
\* maximum 128-bit value.
C2_CmpStartsAtMax ==
    nobs = 0 => \A i \in Buckets : MOVE_CMP_MAP[i] = U128_MAX

\* C3: at every bucket where a recognised comparison has been observed, the
\* compare map holds the least distance observed there so far.
C3_CmpIsLeastSeen ==
    \A i \in Buckets : cmp_seen[i] < U128_MAX => MOVE_CMP_MAP[i] = cmp_seen[i]

\* C4: for a pair of integers of one width, u256 included, the distance of the
\* Eq arm is 0 iff l = r, of the Lt | Le arm iff l <= r, of the Gt | Ge arm iff
\* l >= r.
C4_DistanceContract ==
    LET l == dist_in.l
        r == dist_in.r
        holds == IF dist_in.op = "Eq" THEN l.v = r.v
                 ELSE IF dist_in.op \in {"Lt", "Le"} THEN IntLe(l, r)
                 ELSE IntLe(r, l)
    IN  (dist_out # -1 /\ l.ty = r.ty /\ IsInt(l)) => ((dist_out = 0) <=> holds)

\* C5: every cell of the coverage map holds a value in 0 .. 254.
C5_CovInRange ==
    \A i \in Buckets : MOVE_COV_MAP[i] \in 0 .. (COV_MOD - 1)

\* a cell has reached 254, the value before the counter wraps.
C5_Witness ==
    \E i \in Buckets : MOVE_COV_MAP[i] = COV_MOD - 1

\* C6: a bucket that has counted at least one taken branch holds a non-zero
\* coverage value.
C6_HitBucketNonZero ==
    \A i \in cov_hit : MOVE_COV_MAP[i] # 0

\* C7: a read cell that is true stays true across every step of the process.
C7_ReadNeverClears ==
    [][\A i \in Buckets : MOVE_READ_MAP[i] => MOVE_READ_MAP'[i]]_vars

\* a read cell is set and the execution that set it has returned.
C7_Witness ==
    /\ \E i \in Buckets : MOVE_READ_MAP[i]
    /\ result.returned
    /\ phase = "idle"

\* C8: a step changes a write cell only from 0 to 1; a non-zero cell is left as
\* it is, so a cell that is 1 never goes back to 0.
C8_WriteOnlyZeroToOne ==
    [][\A i \in Buckets :
        MOVE_WRITE_MAP'[i] # MOVE_WRITE_MAP[i] =>
            (MOVE_WRITE_MAP[i] = 0 /\ MOVE_WRITE_MAP'[i] = 1)]_vars

\* a write cell is set and the tracer has observed a further instruction.
C8_Witness ==
    /\ \E i \in Buckets : MOVE_WRITE_MAP[i] = 1
    /\ nobs >= 2
    /\ panic = ""

\* C9: wherever a running execution has a non-boolean on top of the operand
\* stack, the observation of any BrTrue or BrFalse aborts and leaves the four
\* maps as they were.
NonBoolTop ==
    /\ phase = "running"
    /\ operand_stack # <<>>
    /\ operand_stack[Len(operand_stack)].ty # "Bool"

C9_NonBoolBranchAborts ==
    NonBoolTop =>
        \A ins \in {i \in Bytecode : i.op \in BranchOps} :
            \A o \in on_step(Statics, operand_stack, current_frame.pc, ins) :
                /\ o.panic = (IF ins.op = "BrTrue" THEN "brtrue with non-bool value"
                                                   ELSE "brfalse with non-bool value")
                /\ o.maps = Statics

\* the process has aborted on a BrTrue with a non-boolean on top.
C9_Witness ==
    /\ panic = "brtrue with non-bool value"
    /\ NonBoolTop

\* C10: when execute has returned, output.vars has min(k, m) entries, k the
\* number of return types of the initial function and m the size of the
\* operand stack the loop left.
C10_VarsCount ==
    (result.returned /\ phase = "idle") =>
        Len(result.vars) =
            Min(Len(FunctionTable[initial_function].return_types), Len(operand_stack))

\* an execution has returned with more values on the stack than the initial
\* function has return types.
C10_Witness ==
    /\ result.returned
    /\ phase = "idle"
    /\ Len(operand_stack) > Len(FunctionTable[initial_function].return_types)
    /\ Len(result.vars) > 0

\* C11: every function of a deployed module is resolvable by (module id,
\* name), the index has one module key per deployed module, and later deploy
\* and execute calls on the same MoveVM take no entry out of the index.
C11_DeployResolvable ==
    /\ [](/\ \A f \in loader :
                f \in Resolved(FunctionTable[f].module, FunctionTable[f].name)
          /\ Cardinality({k[1] : k \in functions}) =
                Cardinality({FunctionTable[f].module : f \in loader}))
    /\ [][NewVM \/ functions \subseteq functions']_vars

\* both modules are deployed and an execution has returned since.
C11_Witness ==
    /\ {k[1] : k \in functions} = ModuleIds
    /\ result.returned
    /\ phase = "idle"

\* C12: a Call or CallGeneric transition with argc = callee.local_count()
\* leaves in local i of the callee, for i in [0, argc), the value that was at
\* operand-stack depth argc - i (depth 1 the top), and removes exactly those
\* argc values from the operand stack.
C12_CallMovesArguments ==
    [][(phase = "dispatch" /\ ret.code \in {"Call", "CallGeneric"} /\ phase' = "running") =>
        LET argc == FunctionTable[ret.fh].local_count
            m == Len(operand_stack)
        IN  /\ Len(current_frame'.locals) = argc
            /\ \A i \in 0 .. argc - 1 :
                    current_frame'.locals[i + 1] = operand_stack[m - (argc - i) + 1]
            /\ operand_stack' = SubSeq(operand_stack, 1, m - argc)]_vars

\* a callee with two locals has just been entered with two different values.
C12_Witness ==
    /\ phase = "running"
    /\ call_stack # <<>>
    /\ current_frame.pc = 0
    /\ Len(current_frame.locals) = 2
    /\ current_frame.locals[1] # current_frame.locals[2]

\* C13: execute returns reverted = true exactly when the step function
\* returned an error; the error ends the loop at once, a result is still
\* returned, and leaving the loop changes no feedback map.
C13_RevertedIffStepError ==
    /\ [](ret.code = "Err" => phase = "dispatch")
    /\ [][(phase # "idle" /\ phase' = "idle") =>
            /\ result'.returned
            /\ result'.reverted <=> (ret.code = "Err")
            /\ UNCHANGED mapVars]_vars

\* a reverted result has been returned and the read map holds what the run
\* observed before the error.
C13_Witness ==
    /\ phase = "idle"
    /\ result.returned
    /\ result.reverted
    /\ \E i \in Buckets : MOVE_READ_MAP[i]

\* C14: nothing done between two executions, on entry of execute or on its
\* exit (MoveVM::new, deploy, the setup of execute, the result extraction)
\* changes a cell of the four feedback maps.
C14_MapsPersist ==
    [][(phase = "idle" \/ phase' = "idle") => UNCHANGED mapVars]_vars

\* a second execution is at its first instruction and the read map still holds
\* the flag the first one set with its two instructions.
C14_Witness ==
    /\ panic = ""
    /\ phase = "running"
    /\ nobs = 2
    /\ current_frame.pc = 0
    /\ \E i \in Buckets : MOVE_READ_MAP[i]

\* C15: while an execution of a resolved function is under way,
\* MOVE_STATE_CHANGED is false, whatever it was when execute was called.
C15_StateChangedReset ==
    phase # "idle" => ~MOVE_STATE_CHANGED

\* an execution entered with the flag set has observed an instruction.
C15_Witness ==
    /\ phase = "running"
    /\ entry_state_changed
    /\ current_frame.pc > 0
    /\ ~MOVE_STATE_CHANGED

\* C16: a storage-access observation with index sd_idx on an address whose low
\* word is A returns and leaves write[(A + sd_idx) mod MAP_SIZE] = 1 (MoveTo,
\* MoveToGeneric) or read[(A + sd_idx) mod MAP_SIZE] = true (the borrow, exists
\* and move-from family), for every A, also when A + sd_idx exceeds u128::MAX.
C16_StorageBucket ==
    \A ins \in {i \in Bytecode : i.op \in ReadOps \cup WriteOps} :
        \A stack \in TracerStacks(ins) :
            LET k == IF ins.op \in WriteOps THEN 2 ELSE 1
                ty == IF ins.op \in WriteOps THEN "SignerRef" ELSE "Address"
            IN  (PeekOk(stack, k) /\ fast_peek_back(stack, k).ty = ty) =>
                LET A == AddrOff(fast_peek_back(stack, k).v)
                    b == (A + ins.arg) % MAP_SIZE
                IN  \A o \in on_step(Statics, stack, 0, ins) :
                        /\ o.panic = ""
                        /\ IF ins.op \in WriteOps THEN o.maps.write[b] = 1
                                                  ELSE o.maps.read[b]

\* C17: in a process where no branch has been observed, an execution that
\* returns, not reverted, with one u64 output var leaves a coverage map with
\* at least one non-zero bucket.
C17_SimpleRunCovers ==
    (/\ phase = "idle"
     /\ result.returned
     /\ ~result.reverted
     /\ Len(result.vars) = 1
     /\ result.vars[1][1] = "U64"
     /\ cov_hit = {})
        => \E i \in Buckets : MOVE_COV_MAP[i] # 0

\* C18: an execution that returns at least one output var leaves in the
\* metadata an abilities table with, for the type of every output var, the
\* abilities the loader reports for it, one entry per type, and with every
\* entry it held before for another type.
C18_AbilitiesTable ==
    [][(phase # "idle" /\ phase' = "idle" /\ result'.vars # <<>>) =>
        LET types == {result'.vars[j][1] : j \in DOMAIN result'.vars} IN
        /\ metadata'.has
        /\ \A t \in types : <<t, Abilities(t)>> \in metadata'.abilities
        /\ \A e \in metadata.abilities : e[1] \notin types => e \in metadata'.abilities
        /\ \A e1, e2 \in metadata'.abilities : e1[1] = e2[1] => e1 = e2]_vars

\* the last execution put out one u64 var and the table still has the entry
\* an earlier execution made for the struct type.
C18_Witness ==
    /\ phase = "idle"
    /\ result.returned
    /\ Len(result.vars) = 1
    /\ result.vars[1][1] = "U64"
    /\ <<"TestStruct", Abilities("TestStruct")>> \in metadata.abilities

\* C19: execute on a (module id, function name) the index does not hold aborts
\* with the statics, the last result and the metadata as they were; and only a
\* function of the index is ever run.
C19_MissingFunctionAborts ==
    [][/\ (phase = "idle" /\ panic = "" /\ panic' = "unwrap on a None value") =>
            UNCHANGED <<mapVars, MOVE_STATE_CHANGED, result, metadata>>
       /\ (phase = "idle" /\ phase' = "running") =>
            \E k \in functions : k[3] = initial_function']_vars

\* the process has aborted on an unresolved function with the flag still set.
C19_Witness ==
    /\ panic = "unwrap on a None value"
    /\ phase = "idle"
    /\ MOVE_STATE_CHANGED

C21_CallStackDepth ==
    /\ [](phase # "idle" =>
            /\ Len(call_stack) = ncalls - nresumed
            /\ ncalls >= nresumed)
    /\ [][/\ (phase = "idle" /\ phase' = "running") => call_stack' = <<>>
          /\ (phase = "dispatch" /\ ret.code \in {"Call", "CallGeneric"}
                /\ phase' = "running") =>
                /\ call_stack' = Append(call_stack, current_frame)
                /\ current_frame'.function = ret.fh
                /\ current_frame'.pc = 0]_vars

\* one call was taken and its caller has been resumed: the depth is 0 again.
C21_Witness ==
    /\ phase = "running"
    /\ ncalls = 1
    /\ nresumed = 1
    /\ call_stack = <<>>

\* the sum of the coverage counters of buckets 0 .. n.
RECURSIVE C22_SumCov(_)
C22_SumCov(n) ==
    IF n < 0 THEN 0 ELSE MOVE_COV_MAP[n] + C22_SumCov(n - 1)

\* C22: a BrTrue(offset)/BrFalse(offset) observation at pc with boolean top b
\* takes next_pc = offset when the jump is taken (b for BrTrue, not b for
\* BrFalse) and pc + 1 otherwise, adds one modulo 255 to cov[next_pc mod
\* MAP_SIZE] and changes nothing else; so from the all-zero map the counters
\* add up to the number of observations modulo 255.
C22_BranchCounts ==
    /\ \A ins \in {i \in Bytecode : i.op \in BranchOps} :
        \A pc \in TracerPcs(ins), b \in BOOLEAN :
            LET taken == IF ins.op = "BrTrue" THEN b ELSE ~b
                next_pc == IF taken THEN ins.arg ELSE pc + 1
                i == next_pc % MAP_SIZE
                outs == on_step(Statics, <<Val("Bool", b)>>, pc, ins)
            IN  /\ outs # {}
                /\ \A o \in outs :
                    /\ o.panic = ""
                    /\ o.maps = [Statics EXCEPT !.cov[i] = (@ + 1) % COV_MOD]
    /\ C22_SumCov(MAP_SIZE - 1) % COV_MOD = nobs % COV_MOD

\* 256 observations have all landed in bucket 0, which reads 1.
C22_Witness ==
    /\ nobs = COV_MOD + 1
    /\ MOVE_COV_MAP[0] = 1
    /\ MOVE_COV_MAP[1] = 0

\* C23: an observation of Neq, Call, CallGeneric or another instruction
\* outside the branch, comparison and storage families returns with the four
\* maps and MOVE_STATE_CHANGED as they were; an observation of Eq, Lt, Le, Gt
\* or Ge at pc leaves everything but cmp[pc mod MAP_SIZE] as it was.
C23_QuietObservations ==
    \A ins \in {i \in Bytecode : i.op \in QuietOps \cup CmpOps} :
        \A pc \in TracerPcs(ins), stack \in TracerStacks(ins) :
            \A o \in on_step(Statics, stack, pc, ins) :
                IF ins.op \in QuietOps
                THEN o.panic = "" /\ o.maps = Statics
                ELSE o.maps = [Statics EXCEPT
                                !.cmp[pc % MAP_SIZE] = o.maps.cmp[pc % MAP_SIZE]]

\* the tracer has made all its observations and every map is as at the start.
C23_Witness ==
    /\ nobs = MaxObs
    /\ panic = ""
    /\ \A i \in Buckets :
        /\ MOVE_COV_MAP[i] = 0
        /\ ~MOVE_READ_MAP[i]
        /\ MOVE_WRITE_MAP[i] = 0

\* C24: a Call or CallGeneric exit code that resolves to a native function
\* aborts execute: the current frame stays, nothing is pushed on the call
\* stack, and no ExecutionResult is returned.
C24_NativeCallAborts ==
    /\ [](panic = "not yet implemented: native function call" =>
            /\ phase = "dispatch"
            /\ ~result.returned)
    /\ [][(phase = "dispatch" /\ ret.code \in {"Call", "CallGeneric"}
            /\ FunctionTable[ret.fh].native) =>
            /\ panic' # ""
            /\ UNCHANGED <<phase, current_frame, call_stack, result>>]_vars

\* the process has aborted on a call of the native function from the initial
\* frame.
C24_Witness ==
    /\ panic = "not yet implemented: native function call"
    /\ FunctionTable[ret.fh].native
    /\ call_stack = <<>>
    /\ current_frame.function = initial_function

\* C25: output.vars[j] is the j-th return type of the initial function paired
\* with the j-th value of the operand stack from the bottom; what the stack
\* holds above the last return type is not put out.
C25_VarsPairing ==
    (result.returned /\ phase = "idle") =>
        \A j \in DOMAIN result.vars :
            result.vars[j] =
                <<FunctionTable[initial_function].return_types[j], operand_stack[j]>>

\* a reverted execution of the function with one return type has left two
\* values on the stack and put out the bottom one.
C25_Witness ==
    /\ result.returned
    /\ result.reverted
    /\ phase = "idle"
    /\ Len(operand_stack) = 2
    /\ result.vars = <<<<"TestStruct", operand_stack[1]>>>>

\* C26: no step of an execution changes the state the input carries, and the
\* state the result hands back is the run's own, with the output values
\* recorded in it.
C26_RunsOnAClone ==
    [][/\ phase # "idle" => input_state' = input_state
       /\ (phase # "idle" /\ phase' = "idle") =>
            result'.new_state = add_new_values(state, result'.vars)]_vars

\* an execution has returned a state with a resource the input's state lacks.
C26_Witness ==
    /\ phase = "idle"
    /\ result.returned
    /\ result.new_state.resources # input_state.resources

\* C27: a Call or CallGeneric of a non-native callee on a stack that holds at
\* least the callee's parameters does not abort, takes exactly the parameters
\* from the stack, and puts parameter i into local i.
C27_CallTakesParameters ==
    [][(phase = "dispatch" /\ panic = "" /\ ret.code \in {"Call", "CallGeneric"}
        /\ ~FunctionTable[ret.fh].native
        /\ Len(operand_stack) >= FunctionTable[ret.fh].params) =>
        LET n == FunctionTable[ret.fh].params
            m == Len(operand_stack)
        IN  /\ panic' = ""
            /\ operand_stack' = SubSeq(operand_stack, 1, m - n)
            /\ \A i \in 1 .. n : current_frame'.locals[i] = operand_stack[m - n + i]]_vars

\* C28: for Lt, Le, Gt, Ge on integers of one width, the left operand below the
\* right operand on the stack, the distance the tracer computes is 0 whenever
\* the instruction is about to push true.
C28_DistanceZeroWhenTrue ==
    (/\ dist_out # -1
     /\ dist_in.op \in {"Lt", "Le", "Gt", "Ge"}
     /\ dist_in.l.ty = dist_in.r.ty
     /\ dist_in.l.ty \in IntTypes
     /\ Compare(dist_in.op, dist_in.r, dist_in.l))
        => dist_out = 0

\* C29: MOVE_STATE_CHANGED is false in every state deploy, execute and the
\* tracer's observations lead to.
C29_StateChangedNeverSet ==
    MOVE_STATE_CHANGED = FALSE

\* an execution that published a resource has returned and the flag is false.
C29_Witness ==
    /\ phase = "idle"
    /\ result.returned
    /\ ~result.reverted
    /\ result.new_state.resources # {}
    /\ \E i \in Buckets : MOVE_WRITE_MAP[i] = 1
    /\ ~MOVE_STATE_CHANGED

====
